---- MODULE Spec2Model ----
(***************************************************************************)
(* Model of the two dashboard deployment scripts of kcdevice:              *)
(*   upload_web_files_http.py  (script = "http", sync over HTTPS)          *)
(*   upload_web_files.py       (script = "usb",  build + flash over USB)   *)
(* One run of one script is one behaviour.  The environment (command line, *)
(* directory contents, device responses, operator answer, exit codes of    *)
(* the build tool) is chosen from small sets.                              *)
(***************************************************************************)
EXTENDS Integers, Sequences, FiniteSets, TLC

VARIABLES script, argv, dirExists, listing, pc, exitCode, out,
          web_files, total_size, target, port, answer,
          probe, puts, outcomes, idx, success_count, fail_count,
          buildCalls, flashCalls, buildRc, flashRc

vars == <<script, argv, dirExists, listing, pc, exitCode, out,
          web_files, total_size, target, port, answer,
          probe, puts, outcomes, idx, success_count, fail_count,
          buildCalls, flashCalls, buildRc, flashRc>>

----------------------------------------------------------------------------
(* Bounds of the environment *)

\* most entries os.listdir may return
MaxFiles == 3

\* a file name is its stem and its final suffix; notes.md is no dashboard
\* asset, the others are. os.listdir returns entries in an order of the
\* file system's choosing: the model lists them in this one
NameOrder == << [stem |-> "index",  ext |-> ".html"],
               [stem |-> "notes",  ext |-> ".md"],
               [stem |-> "app",    ext |-> ".js"],
               [stem |-> "style",  ext |-> ".css"],
               [stem |-> "editor", ext |-> ".html"] >>

Names == { NameOrder[i] : i \in 1..Len(NameOrder) }

Rank(name) == CHOOSE i \in 1..Len(NameOrder) : NameOrder[i] = name

\* file sizes os.path.getsize may return: 943718 is the largest total
\* without a warning, 943718 + 1 the smallest with one
Sizes == {1, 35000, 943718}

\* HTTP status codes the device may answer with
Statuses == {200, 201, 500}

\* sys.argv of the HTTP script
HttpArgvs == { <<"prog">>, <<"prog", "kc.local">> }

\* sys.argv of the USB script
UsbArgvs == { <<"prog">>,
              <<"prog", "--target">>,
              <<"prog", "--target", "s3">>,
              <<"prog", "--target", "s3", "--port", "COM3">>,
              <<"prog", "--target", "c6", "--port", "COM3">>,
              <<"prog", "--port", "COM3", "--target", "c6">>,
              <<"prog", "--target", "c3", "--port", "COM3">> }

\* what the operator may type at the confirmation prompt
Answers == {"y", "Y", "n", "yes", ""}

\* exit codes of the build tool
ReturnCodes == {0, 1}

\* no exit code yet: the process is running
Running == 0 - 1

\* directory listings: sequences of distinct names, each with a size
Listings == { l \in UNION { [1..n -> [name : Names, size : Sizes]] : n \in 0..MaxFiles } :
                \A i, j \in 1..Len(l) : i < j => Rank(l[i].name) < Rank(l[j].name) }

\* responses to a request: a status code, or an exception
\* (connection error, timeout)
Responses == [kind : {"resp"}, status : Statuses] \cup { [kind |-> "exc", status |-> 0] }

\* results of one iteration of the upload loop: open()/read() raised, or
\* the PUT was sent and answered as in Responses
FileResults == Responses \cup { [kind |-> "readerr", status |-> 0] }

----------------------------------------------------------------------------
(* Helpers *)

\* filename.endswith(('.html', '.js', '.css'))
IsWebFile(name) == name.ext \in {".html", ".js", ".css"}

\* the scan loop: web_files.append((filename, filepath, size)) for each match
RECURSIVE ListWebFiles(_)
ListWebFiles(l) ==
    IF l = <<>> THEN <<>>
    ELSE IF IsWebFile(Head(l).name)
         THEN <<Head(l)>> \o ListWebFiles(Tail(l))
         ELSE ListWebFiles(Tail(l))

\* total_size += size over web_files
RECURSIVE TotalSize(_)
TotalSize(wf) == IF wf = <<>> THEN 0 ELSE Head(wf).size + TotalSize(Tail(wf))

\* the emptiness check never fires
NoWebFiles_Never(wf) == FALSE

\* if not web_files: ... sys.exit(1)
NoWebFiles(wf) == wf = <<>>

\* the existence check never fires
DirMissing_Never(exists) == FALSE

\* if not os.path.exists(web_dir): ... sys.exit(1)
DirMissing(exists) == ~exists

Init ==
    /\ script \in {"http", "usb"}
    /\ argv \in (IF script = "http" THEN HttpArgvs ELSE UsbArgvs)
    /\ dirExists \in BOOLEAN
    /\ listing \in (IF dirExists THEN Listings ELSE {<<>>})
    /\ pc = "args"
    /\ exitCode = Running
    /\ out = {}
    /\ web_files = <<>>
    /\ total_size = 0
    /\ target = ""
    /\ port = ""
    /\ answer = ""
    /\ probe = [kind |-> "none", status |-> 0]
    /\ puts = <<>>
    /\ outcomes = <<>>
    /\ idx = 1
    /\ success_count = 0
    /\ fail_count = 0
    /\ buildCalls = 0
    /\ flashCalls = 0
    /\ buildRc = Running
    /\ flashRc = Running

\* sys.exit(code) after printing msg
Exit(code, msg) ==
    /\ pc' = "exit"
    /\ exitCode' = code
    /\ out' = out \cup {msg}

Env == <<script, argv, dirExists, listing>>
HttpState == <<probe, puts, outcomes, idx, success_count, fail_count>>
UsbState == <<target, port, answer, buildCalls, flashCalls, buildRc, flashRc>>
Scan == <<web_files, total_size>>

HttpParseArgs ==
    /\ script = "http" /\ pc = "args"
    /\ IF Len(argv) < 2
       THEN Exit(1, "usage")
       ELSE pc' = "checkdir" /\ UNCHANGED <<exitCode, out>>
    /\ UNCHANGED <<Env, Scan, HttpState, UsbState>>

HttpCheckDir ==
    /\ script = "http" /\ pc = "checkdir"
    /\ IF DirMissing(dirExists)
       THEN Exit(1, "dir_not_found")
       ELSE pc' = "list" /\ UNCHANGED <<exitCode, out>>
    /\ UNCHANGED <<Env, Scan, HttpState, UsbState>>

\* os.listdir raises on a missing directory (uncaught: traceback, status 1)
HttpListFiles ==
    /\ script = "http" /\ pc = "list"
    /\ IF ~dirExists
       THEN Exit(1, "traceback") /\ UNCHANGED Scan
       ELSE LET wf == ListWebFiles(listing) IN
            /\ web_files' = wf
            /\ IF NoWebFiles(wf)
               THEN Exit(1, "no_web_files") /\ UNCHANGED total_size
               ELSE /\ total_size' = TotalSize(wf)
                    /\ pc' = "probe"
                    /\ out' = out \cup {"found_web_files"}
                    /\ UNCHANGED exitCode
    /\ UNCHANGED <<Env, HttpState, UsbState>>

\* the exception of the probe is swallowed
ProbeRaised_Never(r) == FALSE

\* requests.get raised: the except branch, sys.exit(1)
ProbeRaised(r) == r.kind = "exc"

\* GET /api/status; an exception exits, a status other than 200 only warns
HttpProbe ==
    /\ script = "http" /\ pc = "probe"
    /\ \E r \in Responses :
         /\ probe' = r
         /\ IF ProbeRaised(r)
            THEN Exit(1, "cannot_connect")
            ELSE /\ pc' = "upload"
                 /\ out' = out \cup {IF r.status = 200 THEN "connection_ok"
                                                       ELSE "status_warning"}
                 /\ UNCHANGED exitCode
    /\ UNCHANGED <<Env, Scan, UsbState, puts, outcomes, idx, success_count, fail_count>>

\* any 2xx status counted as a success
IsSuccess_Any2xx(status) == status \in 200..299

\* if response.status_code == 200
IsSuccess(status) == status = 200

\* the loop skips every other file
NextIndex_Skip(i) == i + 2

\* the for statement takes the next element of web_files
NextIndex(i) == i + 1

\* the loop without its try/except: a failed file ends the run
HttpUploadFile_AbortOnFailure ==
    /\ script = "http" /\ pc = "upload" /\ idx <= Len(web_files)
    /\ \E r \in FileResults :
         LET f  == web_files[idx]
             ok == r.kind = "resp" /\ IsSuccess(r.status)
         IN
         /\ puts' = IF r.kind = "readerr" THEN puts
                    ELSE Append(puts, [name |-> f.name, result |-> r])
         /\ success_count' = IF ok THEN success_count + 1 ELSE success_count
         /\ fail_count' = IF ok THEN fail_count ELSE fail_count + 1
         /\ outcomes' = Append(outcomes, [name |-> f.name, succeeded |-> ok,
                                          kind |-> r.kind, status |-> r.status])
         /\ IF ok THEN UNCHANGED <<pc, exitCode, out>> ELSE Exit(1, "traceback")
    /\ idx' = NextIndex(idx)
    /\ UNCHANGED <<Env, Scan, UsbState, probe>>

\* one iteration of the upload loop over web_files[idx]
HttpUploadFile ==
    /\ script = "http" /\ pc = "upload" /\ idx <= Len(web_files)
    /\ \E r \in FileResults :
         LET f  == web_files[idx]
             ok == r.kind = "resp" /\ IsSuccess(r.status)
         IN
         /\ puts' = IF r.kind = "readerr" THEN puts
                    ELSE Append(puts, [name |-> f.name, result |-> r])
         /\ success_count' = IF ok THEN success_count + 1 ELSE success_count
         /\ fail_count' = IF ok THEN fail_count ELSE fail_count + 1
         /\ outcomes' = Append(outcomes, [name |-> f.name, succeeded |-> ok,
                                          kind |-> r.kind, status |-> r.status])
    /\ idx' = NextIndex(idx)
    /\ UNCHANGED <<Env, Scan, UsbState, probe, pc, exitCode, out>>

\* status of the process when main() returns
FinalExitCode(fails) == 0

\* the loop is exhausted: summary, then main() returns
HttpFinish ==
    /\ script = "http" /\ pc = "upload" /\ idx > Len(web_files)
    /\ pc' = "exit"
    /\ exitCode' = FinalExitCode(fail_count)
    /\ out' = out \cup {IF fail_count = 0 THEN "all_uploaded" ELSE "completed_with_errors",
                        "dashboard_updated"}
    /\ UNCHANGED <<Env, Scan, HttpState, UsbState>>

----------------------------------------------------------------------------
(* upload_web_files.py *)

\* the while loop over sys.argv; i is the Python index, None is ""
RECURSIVE ParseArgs(_, _, _)
ParseArgs(i, t, p) ==
    IF ~(i < Len(argv)) THEN [target |-> t, port |-> p]
    ELSE IF argv[i + 1] = "--target" /\ i + 1 < Len(argv)
         THEN ParseArgs(i + 2, argv[i + 2], p)
    ELSE IF argv[i + 1] = "--port" /\ i + 1 < Len(argv)
         THEN ParseArgs(i + 2, t, argv[i + 2])
    ELSE ParseArgs(i + 1, t, p)

UsbParseArgs ==
    /\ script = "usb" /\ pc = "args"
    /\ IF Len(argv) < 3
       THEN Exit(1, "usage") /\ UNCHANGED <<target, port>>
       ELSE LET a == ParseArgs(1, "", "") IN
            /\ target' = a.target
            /\ port' = a.port
            /\ IF a.target = "" \/ a.port = ""
               THEN Exit(1, "target_and_port_required")
               ELSE IF a.target \notin {"c6", "s3"}
               THEN Exit(1, "bad_target")
               ELSE pc' = "checkdir" /\ UNCHANGED <<exitCode, out>>
    /\ UNCHANGED <<Env, Scan, HttpState, answer, buildCalls, flashCalls, buildRc, flashRc>>

UsbCheckDir ==
    /\ script = "usb" /\ pc = "checkdir"
    /\ IF DirMissing(dirExists)
       THEN Exit(1, "dir_not_found")
       ELSE pc' = "list" /\ UNCHANGED <<exitCode, out>>
    /\ UNCHANGED <<Env, Scan, HttpState, UsbState>>

partition_size == 1048576

\* the threshold itself already warns
Warns_AtOrAbove(total) == total >= (partition_size * 9) \div 10

\* partition_size * 0.9 is the float 943718.4: Python compares an int with
\* a float exactly, so total > 943718.4 is total > floor(943718.4)
Warns(total) == total > (partition_size * 9) \div 10

\* scan, total and the advisory capacity warning
UsbListFiles ==
    /\ script = "usb" /\ pc = "list"
    /\ IF ~dirExists
       THEN Exit(1, "traceback") /\ UNCHANGED Scan
       ELSE LET wf == ListWebFiles(listing) IN
            /\ web_files' = wf
            /\ IF NoWebFiles(wf)
               THEN Exit(1, "no_web_files") /\ UNCHANGED total_size
               ELSE /\ total_size' = TotalSize(wf)
                    /\ pc' = "confirm"
                    /\ out' = out \cup {"found_web_files"}
                               \cup (IF Warns(TotalSize(wf)) THEN {"capacity_warning"} ELSE {})
                    /\ UNCHANGED exitCode
    /\ UNCHANGED <<Env, HttpState, UsbState>>

\* str.lower() on the answers of the model
Lower(s) == IF s = "Y" THEN "y" ELSE s

\* response.lower() != 'y'
Declined(a) == Lower(a) # "y"

\* if target == 'c6': ask the operator
UsbConfirm ==
    /\ script = "usb" /\ pc = "confirm"
    /\ IF target = "c6"
       THEN \E a \in Answers :
              /\ answer' = a
              /\ IF Declined(a)
                 THEN Exit(0, "upload_cancelled")
                 ELSE pc' = "build" /\ UNCHANGED <<exitCode, out>>
       ELSE pc' = "build" /\ UNCHANGED <<answer, exitCode, out>>
    /\ UNCHANGED <<Env, Scan, HttpState, target, port, buildCalls, flashCalls, buildRc, flashRc>>

\* the exit code of the build is ignored
BuildOk_Always(rc) == TRUE

\* if result.returncode != 0: "Build failed!", sys.exit(1)
BuildOk(rc) == rc = 0

\* Step 1: build
UsbBuild ==
    /\ script = "usb" /\ pc = "build"
    /\ \E rc \in ReturnCodes :
         /\ buildRc' = rc
         /\ buildCalls' = buildCalls + 1
         /\ IF BuildOk(rc)
            THEN pc' = "flash" /\ out' = out \cup {"build_ok"} /\ UNCHANGED exitCode
            ELSE Exit(1, "build_failed")
    /\ UNCHANGED <<Env, Scan, HttpState, target, port, answer, flashCalls, flashRc>>

\* Step 2: flash, then main() returns
UsbFlash ==
    /\ script = "usb" /\ pc = "flash"
    /\ \E rc \in ReturnCodes :
         /\ flashRc' = rc
         /\ flashCalls' = flashCalls + 1
         /\ IF rc = 0
            THEN pc' = "exit" /\ exitCode' = 0 /\ out' = out \cup {"flash_ok", "upload_complete"}
            ELSE Exit(1, "flash_failed")
    /\ UNCHANGED <<Env, Scan, HttpState, target, port, answer, buildCalls, buildRc>>

----------------------------------------------------------------------------
Next ==
    \/ HttpParseArgs
    \/ HttpCheckDir
    \/ HttpListFiles
    \/ HttpProbe
    \/ HttpUploadFile
    \/ HttpFinish
    \/ UsbParseArgs
    \/ UsbCheckDir
    \/ UsbListFiles
    \/ UsbConfirm
    \/ UsbBuild
    \/ UsbFlash

Spec == Init /\ [][Next]_vars

\* every call of the scripts blocks for a bounded time (timeout=5, timeout=10,
\* a terminating subprocess), so a running script always takes its next step
FairSpec == Spec /\ WF_vars(Next)

----------------------------------------------------------------------------
(* Properties *)

Http == script = "http"
Usb == script = "usb"
Terminated == pc = "exit"

\* the run ended in the command-line checks, before looking at main/web
ArgError == out \cap {"usage", "target_and_port_required", "bad_target"} # {}

\* the HTTP run went through its whole upload loop and printed the summary
Completed == Http /\ Terminated /\ "dashboard_updated" \in out

\* number of PUT requests sent for a file name
PutsFor(name) == Cardinality({k \in 1..Len(puts) : puts[k].name = name})

C2_FailureDoesNotStopLoop ==
    Http =>
      /\ (Terminated /\ probe.kind = "resp") =>
           /\ Len(outcomes) = Len(web_files)
           /\ \A k \in 1..Len(web_files) :
                /\ outcomes[k].name = web_files[k].name
                /\ outcomes[k].kind # "readerr" => PutsFor(web_files[k].name) = 1
      /\ outcomes # <<>> => exitCode \in {Running, 0}
      /\ (/\ Terminated /\ Len(outcomes) = 3
          /\ outcomes[1].status = 200 /\ outcomes[2].status = 500
          /\ outcomes[3].status = 200)
           => /\ success_count = 2 /\ fail_count = 1
              /\ outcomes[1].succeeded /\ ~outcomes[2].succeeded /\ outcomes[3].succeeded

C2_Witness ==
    /\ Completed /\ Len(outcomes) = 3
    /\ outcomes[1].status = 200 /\ outcomes[2].status = 500 /\ outcomes[3].status = 200
    /\ success_count = 2 /\ fail_count = 1

\* C3: exactly one outcome per manifest file: during the loop
\* success_count + fail_count is the number of files processed, outcome k is
\* that of manifest file k, at completion the sum is N, and no file has more
\* than one PUT.
C3_OneOutcomePerFile ==
    Http =>
      /\ success_count + fail_count = idx - 1
      /\ Len(outcomes) = idx - 1
      /\ idx - 1 <= Len(web_files)
      /\ \A k \in 1..Len(outcomes) : outcomes[k].name = web_files[k].name
      /\ \A j, k \in 1..Len(web_files) : j # k => web_files[j].name # web_files[k].name
      /\ \A n \in Names : PutsFor(n) <= 1
      /\ \A k \in 1..Len(puts) : \E j \in 1..Len(outcomes) : outcomes[j].name = puts[k].name
      /\ Completed => success_count + fail_count = Len(web_files)

C3_Witness ==
    /\ Completed /\ Len(web_files) = 3
    /\ success_count = 1 /\ fail_count = 2 /\ Len(puts) = 2

\* the directory exists, the run got as far as scanning it, and no name in
\* it ends in .html, .js or .css
EmptyManifest == dirExists /\ ~ArgError /\ ListWebFiles(listing) = <<>>

\* C4 (as claimed): with an empty manifest the run completes normally, with
\* status 0 and both counts 0.
C4_EmptyManifestCompletes ==
    (EmptyManifest /\ Terminated)
        => exitCode = 0 /\ success_count = 0 /\ fail_count = 0

\* C4 (amended): with an empty manifest both scripts abort with status 1
\* right after the scan ("No web files found"), with no probe, no PUT, no
\* build and no flash; both counts stay 0.
C4_EmptyManifestAborts ==
    EmptyManifest =>
      /\ pc \in {"args", "checkdir", "list", "exit"}
      /\ Terminated => exitCode = 1 /\ "no_web_files" \in out
      /\ probe.kind = "none" /\ puts = <<>>
      /\ success_count = 0 /\ fail_count = 0
      /\ buildCalls = 0 /\ flashCalls = 0

C4_Witness ==
    /\ EmptyManifest /\ Terminated /\ listing # <<>>
    /\ exitCode = 1 /\ "no_web_files" \in out

\* C5: the exit status of a completed HTTP run is 0 exactly when
\* success_count is the number of manifest files, and is not 0 when a file
\* failed.
C5_ExitStatusFromSummary ==
    Completed =>
      /\ exitCode = 0 <=> success_count = Len(web_files)
      /\ fail_count >= 1 => exitCode # 0

\* C6: without the directory main/web the run aborts with status 1 at the
\* existence check: no probe, no PUT, no build, no flash.
C6_MissingDirectoryAborts ==
    ~dirExists =>
      /\ probe.kind = "none" /\ puts = <<>>
      /\ buildCalls = 0 /\ flashCalls = 0
      /\ pc \in {"args", "checkdir", "exit"}
      /\ Terminated => exitCode = 1
      /\ (Terminated /\ ~ArgError) => "dir_not_found" \in out

C6_Witness ==
    ~dirExists /\ Terminated /\ "dir_not_found" \in out /\ exitCode = 1

\* C7: each iteration of the upload loop adds one to success_count and
\* leaves fail_count if its PUT returned 200, and otherwise (another status,
\* an exception, a local read error) adds one to fail_count and leaves
\* success_count.
C7_SuccessIffStatus200 ==
    [][ (Http /\ Len(outcomes') = Len(outcomes) + 1) =>
          LET o == outcomes'[Len(outcomes')] IN
            IF o.kind = "resp" /\ o.status = 200
            THEN success_count' = success_count + 1 /\ fail_count' = fail_count
            ELSE fail_count' = fail_count + 1 /\ success_count' = success_count ]_vars

C7_Witness ==
    /\ Http /\ Len(outcomes) = 3
    /\ outcomes[1].status = 201 /\ outcomes[2].status = 200 /\ outcomes[3].kind = "exc"
    /\ success_count = 1 /\ fail_count = 2

\* the USB run has scanned a non-empty manifest
Scanned == Usb /\ "found_web_files" \in out

\* C8: the capacity warning is printed exactly when 10 * total_size is more
\* than 9 * 1048576 (not at 943718, at 943719, not at 35000), and the scan
\* step goes on to the deployment steps whether or not it warned.
C8_CapacityWarning ==
    /\ [](Scanned =>
            /\ "capacity_warning" \in out <=> 10 * total_size > 9 * 1048576
            /\ total_size = 943718 => "capacity_warning" \notin out
            /\ total_size = 943719 => "capacity_warning" \in out
            /\ total_size = 35000 => "capacity_warning" \notin out)
    /\ [][ (Usb /\ pc = "list" /\ web_files' # <<>>) => pc' = "confirm" ]_vars

C8_Witness ==
    /\ Scanned /\ total_size = 943719 /\ "capacity_warning" \in out
    /\ buildCalls = 1

\* C9: once the probe has returned 200 the HTTP run reaches completion
\* (summary printed, every file attempted, status 0), whatever the files'
\* results.
C9_RunCompletes ==
    (Http /\ pc = "upload" /\ probe.status = 200)
        ~> (Completed /\ exitCode = 0 /\ Len(outcomes) = Len(web_files))

C9_Witness ==
    /\ Completed /\ probe.status = 200 /\ Len(web_files) = 3
    /\ fail_count = 3
    /\ outcomes[1].kind = "readerr" /\ outcomes[2].kind = "exc" /\ outcomes[3].status = 500

\* the operator of a c6 run has answered the prompt
Answered == Scanned /\ target = "c6" /\ pc # "confirm"

\* build before flash, once each, and the exit codes decide the outcome
BuildThenFlash ==
    Usb =>
      /\ buildCalls <= 1 /\ flashCalls <= 1
      /\ flashCalls = 1 => buildCalls = 1 /\ buildRc = 0
      /\ (buildCalls = 1 /\ buildRc # 0) => Terminated /\ exitCode = 1 /\ flashCalls = 0
      /\ (flashCalls = 1 /\ flashRc # 0) => Terminated /\ exitCode = 1
      /\ "upload_complete" \in out =>
           buildCalls = 1 /\ buildRc = 0 /\ flashCalls = 1 /\ flashRc = 0

\* C10 (as claimed): flash only after a build that returned 0, once each,
\* status 1 when either fails, "Upload complete" only when both returned 0;
\* for target c6 an answer other than 'y' ends the run with status 0 before
\* any build or flash.
C10_BuildThenFlashConfirmed ==
    /\ BuildThenFlash
    /\ (Answered /\ answer # "y") =>
         buildCalls = 0 /\ flashCalls = 0 /\ Terminated /\ exitCode = 0

\* C10 (amended): as claimed, but the answer is compared after lower-casing:
\* 'y' and 'Y' both let the build go on, any other answer ends the run with
\* status 0 before any build or flash.
C10_BuildThenFlashLowerCased ==
    /\ BuildThenFlash
    /\ (Answered /\ Lower(answer) # "y") =>
         buildCalls = 0 /\ flashCalls = 0 /\ Terminated /\ exitCode = 0
    /\ (Usb /\ target = "c6" /\ buildCalls + flashCalls > 0) => answer \in {"y", "Y"}

C10_Witness ==
    /\ Usb /\ target = "c6" /\ answer = "Y"
    /\ buildCalls = 1 /\ flashCalls = 1 /\ "upload_complete" \in out
====
